---- MODULE Spec2Model ----
(***************************************************************************)
(* Insight-Agent: the text analysis of main.py (analyze_text) and the      *)
(* POST /analyze handler around it (analyze_endpoint).                     *)
(*                                                                         *)
(* A text is a sequence of one-character strings.  A request is handled in *)
(* steps (log, size check, analyze_text, return / except); several         *)
(* requests may be in flight, and the only state they share is the log.    *)
(***************************************************************************)
EXTENDS Integers, Sequences, FiniteSets, TLC

VARIABLES text, pc, exc, analysis_result, calls, sent, log

vars == <<text, pc, exc, analysis_result, calls, sent, log>>

(***************************************************************************)
(* Bounds of the model and constants of the program.                       *)
(***************************************************************************)
\* The request texts are concatenations of at most MaxPieces pieces.
MaxPieces == 3
\* Requests in flight at once in SpecConc.
NumRequests == 2
\* main.py:106  if len(input_data.text) > 10000
MAX_TEXT_LENGTH == 10000

(***************************************************************************)
(* Characters.                                                             *)
(***************************************************************************)
\* The ASCII characters str.strip() and str.split() treat as whitespace.
Whitespace == {" ", "\t", "\n", "\r", "\f"}

\* The class [.!?] of the sentence regex.
SentenceEnd == {".", "!", "?"}

\* The characters of word.strip('.,!?;:').
WordPunct == {".", ",", "!", "?", ";", ":"}

\* The paragraph separator of text.split('\n\n').
ParagraphSep == <<"\n", "\n">>

LowerMap ==
    [A |-> "a", B |-> "b", C |-> "c", D |-> "d", E |-> "e", F |-> "f",
     G |-> "g", H |-> "h", I |-> "i", J |-> "j", K |-> "k", L |-> "l",
     M |-> "m", N |-> "n", O |-> "o", P |-> "p", Q |-> "q", R |-> "r",
     S |-> "s", T |-> "t", U |-> "u", V |-> "v", W |-> "w", X |-> "x",
     Y |-> "y", Z |-> "z"]

LowerChar(c) == IF c \in DOMAIN LowerMap THEN LowerMap[c] ELSE c

\* str.lower(), as a sequence
Lower(s) == [i \in 1..Len(s) |-> LowerChar(s[i])] \o <<>>

(***************************************************************************)
(* String primitives, each a left-to-right scan as the library does it.    *)
(***************************************************************************)
\* The first index >= from whose character is in set, Len(s)+1 if none.
FirstIn(s, from, set) ==
    CHOOSE i \in from..(Len(s) + 1) :
        /\ (i = Len(s) + 1 \/ s[i] \in set)
        /\ \A j \in from..(i - 1) : s[j] \notin set

\* The first index >= from whose character is not in set, Len(s)+1 if none.
FirstNotIn(s, from, set) ==
    CHOOSE i \in from..(Len(s) + 1) :
        /\ (i = Len(s) + 1 \/ s[i] \notin set)
        /\ \A j \in from..(i - 1) : s[j] \in set

\* The last index whose character is not in set, 0 if none.
LastNotIn(s, set) ==
    CHOOSE i \in 0..Len(s) :
        /\ (i = 0 \/ s[i] \notin set)
        /\ \A j \in (i + 1)..Len(s) : s[j] \in set

\* s.strip(chars): the characters of set removed from both ends.
StripChars(s, set) ==
    SubSeq(s, FirstNotIn(s, 1, set), LastNotIn(s, set))

\* s.strip()
Strip(s) == StripChars(s, Whitespace)

\* sub occurs in s at index i.
MatchesAt(s, sub, i) ==
    /\ i + Len(sub) - 1 <= Len(s)
    /\ \A j \in 1..Len(sub) : s[i + j - 1] = sub[j]

\* sub in s
Contains(s, sub) == \E i \in 1..(Len(s) - Len(sub) + 1) : MatchesAt(s, sub, i)

\* The first index >= from at which sub occurs in s, Len(s)+1 if none.
FindFrom(s, sub, from) ==
    CHOOSE i \in from..(Len(s) + 1) :
        /\ (i = Len(s) + 1 \/ MatchesAt(s, sub, i))
        /\ \A j \in from..(i - 1) : ~MatchesAt(s, sub, j)

RECURSIVE SplitWhitespaceFrom(_, _)
SplitWhitespaceFrom(s, from) ==
    LET i == FirstNotIn(s, from, Whitespace)
        j == FirstIn(s, i, Whitespace)
    IN  IF i > Len(s) THEN <<>>
        ELSE <<SubSeq(s, i, j - 1)>> \o SplitWhitespaceFrom(s, j)

\* s.split(): the maximal runs of non-whitespace characters.
SplitWhitespace(s) == SplitWhitespaceFrom(s, 1)

RECURSIVE SplitOnFrom(_, _, _)
SplitOnFrom(s, sep, from) ==
    LET p == FindFrom(s, sep, from)
    IN  IF p > Len(s) THEN <<SubSeq(s, from, Len(s))>>
        ELSE <<SubSeq(s, from, p - 1)>> \o SplitOnFrom(s, sep, p + Len(sep))

\* s.split(sep): the pieces between the non-overlapping occurrences of sep.
SplitOn(s, sep) == SplitOnFrom(s, sep, 1)

RECURSIVE ReSplitFrom(_, _, _)
ReSplitFrom(s, set, from) ==
    LET p == FirstIn(s, from, set)
        q == FirstNotIn(s, p, set)
    IN  IF p > Len(s) THEN <<SubSeq(s, from, Len(s))>>
        ELSE <<SubSeq(s, from, p - 1)>> \o ReSplitFrom(s, set, q)

\* re.split(r'[set]+', s): the pieces between the maximal runs of set.
ReSplit(s, set) == ReSplitFrom(s, set, 1)

\* s.replace(c, '')
Remove(s, c) == SelectSeq(s, LAMBDA x : x # c)

\* sum(f(x) for x in seq), for the lengths summed by avg_word_length.
RECURSIVE SumStrippedLengths(_)
SumStrippedLengths(words) ==
    IF words = <<>> THEN 0
    ELSE Len(StripChars(Head(words), WordPunct)) + SumStrippedLengths(Tail(words))

\* round(num / den, 2) in hundredths, den > 0: round-half-even of the
\* quotient.  (A float quotient is within 1e-15 of the rational one, and a
\* tie needs a denominator that is a multiple of 8.)
RoundHundredths(num, den) ==
    LET q == (100 * num) \div den
        r == (100 * num) % den
    IN  IF 2 * r < den THEN q
        ELSE IF 2 * r > den THEN q + 1
        ELSE IF q % 2 = 0 THEN q ELSE q + 1
(***************************************************************************)
(* analyze_text, metric by metric.                                         *)
(***************************************************************************)
\* main.py:63
positive_words ==
    <<<<"g", "o", "o", "d">>,
      <<"g", "r", "e", "a", "t">>,
      <<"e", "x", "c", "e", "l", "l", "e", "n", "t">>,
      <<"a", "m", "a", "z", "i", "n", "g">>,
      <<"l", "o", "v", "e">>,
      <<"w", "o", "n", "d", "e", "r", "f", "u", "l">>,
      <<"f", "a", "n", "t", "a", "s", "t", "i", "c">>>>

\* main.py:64
negative_words ==
    <<<<"b", "a", "d">>,
      <<"t", "e", "r", "r", "i", "b", "l", "e">>,
      <<"a", "w", "f", "u", "l">>,
      <<"h", "a", "t", "e">>,
      <<"h", "o", "r", "r", "i", "b", "l", "e">>,
      <<"d", "i", "s", "g", "u", "s", "t", "i", "n", "g">>>>

\* Faulty variant: "if not text", the whitespace-only text let through.
IsInvalidNoStrip(t) == t = <<>>

\* if not text or not text.strip()
IsInvalid(t) == t = <<>> \/ Strip(t) = <<>>

\* Faulty variant: len(text.split(' ')), which keeps the empty strings
\* between adjacent spaces and splits on the space only.
WordCountSplitOnSpace(t) == Len(SplitOn(t, <<" ">>))

\* len(text.split())
WordCount(t) == Len(SplitWhitespace(t))

\* len(text)
CharacterCount(t) == Len(t)

\* Faulty variant: every whitespace character removed, not the space only.
CharacterCountNoWhitespace(t) == Len(SelectSeq(t, LAMBDA x : x \notin Whitespace))

\* len(text.replace(' ', ''))
CharacterCountNoSpaces(t) == Len(Remove(t, " "))

\* Faulty variant: len(sentences), the blank segments counted too.
SentenceCountUnfiltered(t) == Len(ReSplit(Strip(t), SentenceEnd))

\* len([s for s in re.split(r'[.!?]+', text.strip()) if s.strip()])
SentenceCount(t) ==
    Len(SelectSeq(ReSplit(Strip(t), SentenceEnd), LAMBDA s : Strip(s) # <<>>))

\* Faulty variant: text.split('\n'), every line a paragraph.
ParagraphsFoundByLine(t) ==
    Len(SelectSeq(SplitOn(t, <<"\n">>), LAMBDA p : Strip(p) # <<>>))

\* len([p for p in text.split('\n\n') if p.strip()])
ParagraphsFound(t) ==
    Len(SelectSeq(SplitOn(t, ParagraphSep), LAMBDA p : Strip(p) # <<>>))

\* ... and 1 when none is found
ParagraphCount(t) == IF ParagraphsFound(t) = 0 THEN 1 ELSE ParagraphsFound(t)

\* round(sum(len(word.strip('.,!?;:')) for word in words) / len(words)
\*       if words else 0, 2), in hundredths
AvgWordLength(t) ==
    LET words == SplitWhitespace(t)
    IN  IF words # <<>> THEN RoundHundredths(SumStrippedLengths(words), Len(words))
        ELSE 0

\* The number of places at which word occurs in s.
Occurrences(s, word) == Cardinality({i \in 1..Len(s) : MatchesAt(s, word, i)})

RECURSIVE SumOccurrences(_, _)
SumOccurrences(keywords, s) ==
    IF keywords = <<>> THEN 0
    ELSE Occurrences(s, Head(keywords)) + SumOccurrences(Tail(keywords), s)

\* Faulty variant: sum(text_lower.count(word) for word in keywords), every
\* occurrence counted.
KeywordOccurrences(keywords, text_lower) == SumOccurrences(keywords, text_lower)

\* sum(1 for word in keywords if word in text_lower)
KeywordCount(keywords, text_lower) ==
    Len(SelectSeq(keywords, LAMBDA word : Contains(text_lower, word)))

SentimentScore(t) ==
    LET text_lower == Lower(t)
        positive_count == KeywordCount(positive_words, text_lower)
        negative_count == KeywordCount(negative_words, text_lower)
    IN  IF positive_count > negative_count THEN "positive"
        ELSE IF negative_count > positive_count THEN "negative"
        ELSE "neutral"

\* The dictionary analyze_text returns.
Metrics(t) ==
    [original_text |-> t,
     word_count |-> WordCount(t),
     character_count |-> CharacterCount(t),
     character_count_no_spaces |-> CharacterCountNoSpaces(t),
     sentence_count |-> SentenceCount(t),
     paragraph_count |-> ParagraphCount(t),
     avg_word_length |-> AvgWordLength(t),
     sentiment_score |-> SentimentScore(t)]

ValueError(msg) == [type |-> "ValueError", detail |-> msg]

\* fastapi.HTTPException: an Exception, not a ValueError.
HTTPException(status_code, detail) ==
    [type |-> "HTTPException", status_code |-> status_code, detail |-> detail]

\* Faulty variant: no validation, the metrics computed for any text.
analyze_text_unvalidated(t) == [raised |-> FALSE, value |-> Metrics(t)]

\* The outcome of analyze_text(t): an exception raised or a value returned.
analyze_text(t) ==
    IF IsInvalid(t) THEN [raised |-> TRUE, exc |-> ValueError("Text cannot be empty")]
    ELSE [raised |-> FALSE, value |-> Metrics(t)]

(***************************************************************************)
(* The request texts.                                                      *)
(***************************************************************************)
\* What the bounded texts are built from: whitespace, the paragraph
\* separator, sentence ends, word punctuation, a letter, a negative keyword
\* in mixed case, a positive keyword, and a suffix ("Bad" + "ge").
Pieces ==
    {<<" ">>,
     <<"\t">>,
     <<"\n">>,
     <<"\n", "\n">>,
     <<".">>,
     <<"!">>,
     <<",">>,
     <<"a">>,
     <<"B", "a", "d">>,
     <<"g", "o", "o", "d">>,
     <<"g", "e">>}

RECURSIVE TextsOf(_)
TextsOf(n) ==
    IF n = 0 THEN {<<>>}
    ELSE LET shorter == TextsOf(n - 1)
         IN  shorter \cup {t \o p : t \in shorter, p \in Pieces}

Repeat(c, n) == [i \in 1..n |-> c]

\* Texts at the size limit and one character over it, blank and not.
LimitTexts ==
    {Repeat(c, n) : c \in {"a", " "}, n \in {MAX_TEXT_LENGTH, MAX_TEXT_LENGTH + 1}}

\* test_app.py:25
HelloWorld ==
    <<"H", "e", "l", "l", "o", " ", "w", "o", "r", "l", "d", "!">>

\* test_app.py:38
GreatProduct ==
    <<"T", "h", "i", "s", " ", "i", "s", " ", "a", " ", "g", "r", "e", "a",
      "t", " ", "p", "r", "o", "d", "u", "c", "t", "!", " ", "I", " ", "l",
      "o", "v", "e", " ", "i", "t", ".", " ", "A", "m", "a", "z", "i", "n",
      "g", " ", "q", "u", "a", "l", "i", "t", "y", ".">>

\* test_app.py:87
TerribleAwful ==
    <<"T", "h", "i", "s", " ", "i", "s", " ", "t", "e", "r", "r", "i", "b",
      "l", "e", " ", "a", "n", "d", " ", "a", "w", "f", "u", "l", "!">>

TestTexts == {HelloWorld, GreatProduct, TerribleAwful}

Texts == TextsOf(MaxPieces) \cup LimitTexts \cup TestTexts

\* The texts of concurrently served requests: one of each kind of response
\* (two that are analysed, two that are blank, one that is too long).
ConcTexts ==
    {<<>>, <<" ">>, <<"a">>, <<"g", "o", "o", "d">>,
     Repeat("a", MAX_TEXT_LENGTH + 1)}

(***************************************************************************)
(* analyze_endpoint: one request r, step by step.                          *)
(***************************************************************************)
Requests == DOMAIN text

None == [type |-> "None"]

\* Faulty variant: len(input_data.text) >= 10000
TooLongInclusive(t) == Len(t) >= MAX_TEXT_LENGTH

\* len(input_data.text) > 10000
TooLong(t) == Len(t) > MAX_TEXT_LENGTH

\* AnalysisResponse(**analysis_result)
AnalysisResponse(d) ==
    [original_text |-> d.original_text,
     word_count |-> d.word_count,
     character_count |-> d.character_count,
     character_count_no_spaces |-> d.character_count_no_spaces,
     sentence_count |-> d.sentence_count,
     paragraph_count |-> d.paragraph_count,
     avg_word_length |-> d.avg_word_length,
     sentiment_score |-> d.sentiment_score]

\* What the framework sends for an HTTPException leaving the handler.
ErrorResponse(e) == [status_code |-> e.status_code, detail |-> e.detail]

LogRecord(level, msg, arg) == [level |-> level, msg |-> msg, arg |-> arg]

\* logger.info(f"Received analysis request for text length: ...")
Receive(r) ==
    /\ pc[r] = "start"
    /\ log' = Append(log, LogRecord("INFO",
                 "Received analysis request for text length", Len(text[r])))
    /\ pc' = [pc EXCEPT ![r] = "check"]
    /\ UNCHANGED <<text, exc, analysis_result, calls, sent>>

\* The size check, inside the try block.
SizeCheck(r) ==
    /\ pc[r] = "check"
    /\ IF TooLong(text[r])
       THEN /\ exc' = [exc EXCEPT ![r] = HTTPException(400,
                           "Text too long. Maximum 10,000 characters allowed.")]
            /\ pc' = [pc EXCEPT ![r] = "except"]
       ELSE /\ pc' = [pc EXCEPT ![r] = "analyze"]
            /\ UNCHANGED exc
    /\ UNCHANGED <<text, analysis_result, calls, sent, log>>

\* analysis_result = analyze_text(input_data.text)
CallAnalyze(r) ==
    /\ pc[r] = "analyze"
    /\ calls' = [calls EXCEPT ![r] = @ + 1]
    /\ \E out \in {analyze_text(text[r])} :
           IF out.raised
           THEN /\ exc' = [exc EXCEPT ![r] = out.exc]
                /\ pc' = [pc EXCEPT ![r] = "except"]
                /\ UNCHANGED analysis_result
           ELSE /\ analysis_result' = [analysis_result EXCEPT ![r] = out.value]
                /\ pc' = [pc EXCEPT ![r] = "return"]
                /\ UNCHANGED exc
    /\ UNCHANGED <<text, sent, log>>

\* Faulty variant: analysis_result kept in a module-level global, so that a
\* handler may return the analysis another request stored there.
ReturnShared(r) ==
    /\ pc[r] = "return"
    /\ log' = Append(log, LogRecord("INFO", "Analysis completed successfully", 0))
    /\ \E q \in Requests :
           /\ analysis_result[q] # None
           /\ sent' = [sent EXCEPT ![r] = Append(@,
                          [status_code |-> 200, body |-> AnalysisResponse(analysis_result[q])])]
    /\ pc' = [pc EXCEPT ![r] = "done"]
    /\ UNCHANGED <<text, exc, analysis_result, calls>>

\* logger.info(...); return AnalysisResponse(**analysis_result)
Return(r) ==
    /\ pc[r] = "return"
    /\ log' = Append(log, LogRecord("INFO", "Analysis completed successfully", 0))
    /\ sent' = [sent EXCEPT ![r] = Append(@,
                   [status_code |-> 200, body |-> AnalysisResponse(analysis_result[r])])]
    /\ pc' = [pc EXCEPT ![r] = "done"]
    /\ UNCHANGED <<text, exc, analysis_result, calls>>

\* except ValueError as e
ExceptValueError(r) ==
    /\ pc[r] = "except"
    /\ exc[r].type = "ValueError"
    /\ log' = Append(log, LogRecord("ERROR", "Validation error", exc[r].detail))
    /\ sent' = [sent EXCEPT ![r] = Append(@,
                   ErrorResponse(HTTPException(400, exc[r].detail)))]
    /\ pc' = [pc EXCEPT ![r] = "done"]
    /\ UNCHANGED <<text, exc, analysis_result, calls>>

\* except Exception as e: every exception the first clause did not take,
\* the handler's own HTTPException included.
ExceptException(r) ==
    /\ pc[r] = "except"
    /\ exc[r].type # "ValueError"
    /\ log' = Append(log, LogRecord("ERROR", "Analysis error", exc[r].detail))
    /\ sent' = [sent EXCEPT ![r] = Append(@,
                   ErrorResponse(HTTPException(500,
                       "Internal server error during analysis")))]
    /\ pc' = [pc EXCEPT ![r] = "done"]
    /\ UNCHANGED <<text, exc, analysis_result, calls>>

InitWith(texts) ==
    /\ text = texts
    /\ pc = [r \in DOMAIN texts |-> "start"]
    /\ exc = [r \in DOMAIN texts |-> None]
    /\ analysis_result = [r \in DOMAIN texts |-> None]
    /\ calls = [r \in DOMAIN texts |-> 0]
    /\ sent = [r \in DOMAIN texts |-> <<>>]
    /\ log = <<>>

\* One request, any text.
Init == \E t \in Texts : InitWith(<<t>>)

\* NumRequests requests in flight.  Their steps interleave freely: a
\* superset of the schedules of an event loop, which runs a handler without
\* an await to its end, and of worker processes, which share nothing.
InitConc == \E texts \in [1..NumRequests -> ConcTexts] : InitWith(texts)

Next ==
    \/ \E r \in Requests : Receive(r)
    \/ \E r \in Requests : SizeCheck(r)
    \/ \E r \in Requests : CallAnalyze(r)
    \/ \E r \in Requests : Return(r)
    \/ \E r \in Requests : ExceptValueError(r)
    \/ \E r \in Requests : ExceptException(r)

Spec == Init /\ [][Next]_vars

SpecConc == InitConc /\ [][Next]_vars

(***************************************************************************)
(* The claims.                                                             *)
(***************************************************************************)
Done(r) == pc[r] = "done"

\* The response to r is a 200 carrying an analysis.
Analysed(r) == Done(r) /\ Len(sent[r]) = 1 /\ sent[r][1].status_code = 200

\* Every character of t is whitespace (the empty text included).
AllWhitespace(t) == \A i \in 1..Len(t) : t[i] \in Whitespace

\* C1: a request whose text has more than 10,000 characters is answered
\* with a 400 whose detail is "Text too long. Maximum 10,000 characters
\* allowed.", never with a 500 or a 200.
C1_TooLongIs400 ==
    \A r \in Requests :
        (Done(r) /\ Len(text[r]) > MAX_TEXT_LENGTH) =>
            /\ Len(sent[r]) = 1
            /\ sent[r][1].status_code = 400
            /\ sent[r][1].detail = "Text too long. Maximum 10,000 characters allowed."

\* C2: for an empty or whitespace-only text analyze_text raises the
\* validation error and returns no result, and the request, when the text
\* has at most 10,000 characters, is answered with a 400 carrying the
\* error's message.
C2_BlankIsRejected ==
    \A r \in Requests :
        AllWhitespace(text[r]) =>
            /\ analysis_result[r] = None
            /\ calls[r] > 0 => exc[r] = ValueError("Text cannot be empty")
            /\ (Done(r) /\ Len(text[r]) <= MAX_TEXT_LENGTH) =>
                   sent[r] = <<[status_code |-> 400, detail |-> "Text cannot be empty"]>>

\* A whitespace-only, non-empty text has been answered with a 400.
C2_Witness ==
    \E r \in Requests :
        /\ Done(r)
        /\ text[r] # <<>>
        /\ AllWhitespace(text[r])
        /\ Len(text[r]) <= MAX_TEXT_LENGTH
        /\ calls[r] = 1
        /\ sent[r][1].status_code = 400

\* The keywords of a list that occur in the lower-cased text, as a set.
KeywordsIn(keywords, t) ==
    {k \in 1..Len(keywords) : Contains(Lower(t), keywords[k])}

\* t followed by a space and one more copy of word.
WithKeywordRepeated(t, word) == t \o <<" ">> \o word

\* C3: the sentiment label compares the numbers of distinct positive and
\* distinct negative keywords that occur as substrings of the lower-cased
\* text (neutral when they are equal); repeating, as one more word, a keyword
\* the text already contains does not change the label.
C3_SentimentByDistinctKeywords ==
    \A r \in Requests :
        Analysed(r) =>
            LET t == text[r]
                p == Cardinality(KeywordsIn(positive_words, t))
                n == Cardinality(KeywordsIn(negative_words, t))
                label == sent[r][1].body.sentiment_score
            IN  /\ label = (IF p > n THEN "positive"
                            ELSE IF p < n THEN "negative" ELSE "neutral")
                /\ \A k \in KeywordsIn(positive_words, t) :
                       SentimentScore(WithKeywordRepeated(t, positive_words[k])) = label
                /\ \A k \in KeywordsIn(negative_words, t) :
                       SentimentScore(WithKeywordRepeated(t, negative_words[k])) = label

\* "Badge" has been analysed: "bad" inside a longer word, in mixed case,
\* makes the label negative.
C3_Witness ==
    \E r \in Requests :
        /\ Analysed(r)
        /\ text[r] = <<"B", "a", "d", "g", "e">>
        /\ sent[r][1].body.sentiment_score = "negative"

\* The indices at which a maximal run free of '.', '!', '?' starts that
\* holds a character other than whitespace.
SentenceStarts(t) ==
    {i \in 1..Len(t) :
        /\ t[i] \notin SentenceEnd
        /\ i = 1 \/ t[i - 1] \in SentenceEnd
        /\ \E j \in i..Len(t) :
               /\ t[j] \notin Whitespace
               /\ \A k \in i..j : t[k] \notin SentenceEnd}

\* C4: sentence_count is the number of segments between runs of '.', '!',
\* '?' that are not blank, and 1 for a text without any of them.
C4_SentenceCount ==
    \A r \in Requests :
        Analysed(r) =>
            /\ sent[r][1].body.sentence_count = Cardinality(SentenceStarts(text[r]))
            /\ (\A i \in 1..Len(text[r]) : text[r][i] \notin SentenceEnd) =>
                   sent[r][1].body.sentence_count = 1

\* The three sentences of test_analyze_endpoint_complex have been counted.
C4_Witness ==
    \E r \in Requests :
        /\ Analysed(r)
        /\ text[r] = GreatProduct
        /\ sent[r][1].body.sentence_count = 3

\* C5: for a text that passes validation some segment between "\n\n"
\* separators is not blank, so paragraph_count is the number found, never
\* the fallback, and it is 1 for a text without "\n\n".
C5_ParagraphFallbackUnused ==
    \A r \in Requests :
        Analysed(r) =>
            /\ ParagraphsFound(text[r]) >= 1
            /\ sent[r][1].body.paragraph_count = ParagraphsFound(text[r])
            /\ ~Contains(text[r], ParagraphSep) =>
                   sent[r][1].body.paragraph_count = 1

\* A text of two paragraphs has been analysed.
C5_Witness ==
    \E r \in Requests :
        /\ Analysed(r)
        /\ text[r] = <<"a", "\n", "\n", "a">>
        /\ sent[r][1].body.paragraph_count = 2

\* The places between two characters of t that lie between two tokens: a
\* whitespace character on one side at least, a token before and after.
InteriorGaps(t) ==
    {k \in 1..(Len(t) - 1) :
        /\ t[k] \in Whitespace \/ t[k + 1] \in Whitespace
        /\ \E i \in 1..k : t[i] \notin Whitespace
        /\ \E i \in (k + 1)..Len(t) : t[i] \notin Whitespace}

\* t with the characters ws inserted after its k-th character.
InsertAt(t, k, ws) == SubSeq(t, 1, k) \o ws \o SubSeq(t, k + 1, Len(t))

\* The whitespace inserted: one or two of space, tab, newline.
Inserted ==
    LET one == {<<c>> : c \in {" ", "\t", "\n"}}
    IN  one \cup {a \o b : a \in one, b \in one}

\* C6: whitespace inserted between two tokens leaves word_count as it is and
\* adds its length to character_count.
C6_InteriorWhitespace ==
    \A r \in Requests :
        Analysed(r) =>
            \A k \in InteriorGaps(text[r]) : \A ws \in Inserted :
                /\ WordCount(InsertAt(text[r], k, ws)) = sent[r][1].body.word_count
                /\ CharacterCount(InsertAt(text[r], k, ws)) =
                       sent[r][1].body.character_count + Len(ws)

\* "a a" has been analysed: two words, and gaps to insert at.
C6_Witness ==
    \E r \in Requests :
        /\ Analysed(r)
        /\ text[r] = <<"a", " ", "a">>
        /\ InteriorGaps(text[r]) = {1, 2}
        /\ sent[r][1].body.word_count = 2

\* C7: character_count is the length of the text as submitted, and
\* character_count_no_spaces is that less the number of ' ' characters
\* (tabs and newlines stay counted).
C7_CharacterCounts ==
    \A r \in Requests :
        Analysed(r) =>
            /\ sent[r][1].body.character_count = Len(text[r])
            /\ sent[r][1].body.character_count_no_spaces =
                   Len(text[r]) - Cardinality({i \in 1..Len(text[r]) : text[r][i] = " "})

\* A text with a leading space and a tab has been analysed.
C7_Witness ==
    \E r \in Requests :
        /\ Analysed(r)
        /\ text[r] = <<" ", "\t", "a">>
        /\ sent[r][1].body.character_count = 3
        /\ sent[r][1].body.character_count_no_spaces = 2

\* C8: analyze_text is called at most once for a request, only after the
\* size check has passed, and, once the request is answered, it has been
\* called exactly when the text has at most 10,000 characters.
C8_SizeCheckBeforeAnalysis ==
    \A r \in Requests :
        /\ calls[r] <= 1
        /\ pc[r] \in {"start", "check", "analyze"} => calls[r] = 0
        /\ calls[r] = 1 => Len(text[r]) <= MAX_TEXT_LENGTH
        /\ Done(r) => (calls[r] = 1 <=> Len(text[r]) <= MAX_TEXT_LENGTH)

\* A text of exactly 10,000 characters has been forwarded to analyze_text.
C8_Witness ==
    \E r \in Requests :
        /\ Done(r)
        /\ Len(text[r]) = MAX_TEXT_LENGTH
        /\ calls[r] = 1

ResultFields ==
    {"original_text", "word_count", "character_count",
     "character_count_no_spaces", "sentence_count", "paragraph_count",
     "avg_word_length", "sentiment_score"}

\* C9: a request whose text has at most 10,000 characters gets exactly one
\* response, sent when the handler ends: a 200 with the eight fields (and
\* word_count >= 1) for a text that is not blank, a 400 for a blank one,
\* and so never a 500.
C9_OneResponse200Or400 ==
    \A r \in Requests :
        /\ ~Done(r) => sent[r] = <<>>
        /\ (Done(r) /\ Len(text[r]) <= MAX_TEXT_LENGTH) =>
               /\ Len(sent[r]) = 1
               /\ IF AllWhitespace(text[r])
                  THEN sent[r][1].status_code = 400
                  ELSE /\ sent[r][1].status_code = 200
                       /\ DOMAIN sent[r][1].body = ResultFields
                       /\ sent[r][1].body.original_text = text[r]
                       /\ sent[r][1].body.word_count >= 1

\* A non-blank text of exactly 10,000 characters has been answered with 200.
C9_Witness ==
    \E r \in Requests :
        /\ Analysed(r)
        /\ Len(text[r]) = MAX_TEXT_LENGTH
        /\ sent[r][1].body.word_count = 1

\* The response the handler gives to a text, whatever else is in flight.
ResponseTo(t) ==
    IF Len(t) > MAX_TEXT_LENGTH
    THEN [status_code |-> 500, detail |-> "Internal server error during analysis"]
    ELSE IF AllWhitespace(t)
    THEN [status_code |-> 400, detail |-> "Text cannot be empty"]
    ELSE [status_code |-> 200, body |-> Metrics(t)]

\* C10: under every interleaving of the requests in flight, the response to
\* a request is determined by its own text, and two requests with the same
\* text get the same response.
C10_ResponseDependsOnTextOnly ==
    /\ \A r \in Requests : Done(r) => sent[r] = <<ResponseTo(text[r])>>
    /\ \A q, r \in Requests :
           (Done(q) /\ Done(r) /\ text[q] = text[r]) => sent[q] = sent[r]

\* Two requests with the same text were answered after their steps
\* interleaved: the log holds the second arrival before the first answer.
C10_Witness ==
    \E q, r \in Requests :
        /\ q # r
        /\ text[q] = text[r]
        /\ Analysed(q) /\ Analysed(r)
        /\ Len(log) >= 4
        /\ log[1].level = "INFO" /\ log[2].msg = log[1].msg

====
